---- MODULE Spec2Model ----
(***************************************************************************)
(* Model of the batch driver run_flash_searcher_mm.py: main() loads the    *)
(* work list and the prior output, filters the done questions, submits one *)
(* process_item task per pending item to a ThreadPoolExecutor, collects    *)
(* the futures with as_completed and appends every result with safe_write. *)
(***************************************************************************)
EXTENDS Integers, Sequences, FiniteSets, TLC

(* ---------------- bounds of the model ---------------- *)
MaxItems == 2        \* longest input list
MaxK == 2            \* largest --concurrency
MaxRuns == 2         \* runs of the driver against the same paths
MaxPrior == 1        \* records in the output store before the first run

(* ---------------- values ---------------- *)
\* Text is a sequence of tokens, so that += is concatenation.
ZipHeader == <<"attached files:">>
SingleHeader == <<"attached file:">>
Descriptions == {<<"desc">>}
ExcMessages == {"", "boom"}

\* The work items the input file may hold (dicts; a key may be absent).
Items ==
  { [question |-> <<"Q1">>, answer |-> "A1"],
    [question |-> <<"Q2">>, answer |-> "A2"],
    [question |-> <<"Q2">>, answer |-> "A2", file_name |-> "f.png"],
    [question |-> <<"Q1">>, answer |-> "A1", file_name |-> "a.zip"],
    [question |-> <<"Q2">>] }

\* What search_agent(question) may return: a mapping whose keys are the
\* worker's own.
WorkerOutputs ==
  { [agent_result |-> "ok"],
    [agent_result |-> "ok", status |-> "partial", golden_answer |-> "pred"] }

SeqsUpTo(S, n) == UNION { [1..k -> S] : k \in 0..n }

\* A file: missing, empty (no bytes), partial (cut short or otherwise
\* malformed), nonrecords (it parses, but not to a sequence of dicts) or ok
\* (it parses to the records recs).
MissingFile == [st |-> "missing", recs |-> <<>>]
Document(recs) == [st |-> "ok", recs |-> recs]
PartialFile == [st |-> "partial", recs |-> <<>>]
EmptyFile == [st |-> "empty", recs |-> <<>>]
NonRecordsFile == [st |-> "nonrecords", recs |-> <<>>]

\* os.environ.get("OPENAI_API_KEY"): None when unset
KeyUnset == "<unset>"
PlaceholderKey == "your-siliconflow-api-key-here"
ApiKeys == {KeyUnset, "", PlaceholderKey, "sk-key"}

\* args.sample_num: {} stands for None, {n} for the integer n
NoSample == {}
SampleNums == {NoSample} \cup { {n} : n \in (0 - 1)..(MaxItems + 1) }

NoOutcome == [kind |-> "none"]
Return(rec) == [kind |-> "return", rec |-> rec]
Raise(exc) == [kind |-> "raise", exc |-> exc]

(* ---------------- process_item ---------------- *)
\* item.get("file_name") is truthy
HasFile(item) == "file_name" \in DOMAIN item /\ item.file_name # ""

\* ".zip" in item["file_name"]
IsZip(name) == name \in {"a.zip"}

\* {**a, **b}: the keys of b win
Merge(a, b) ==
  [k \in DOMAIN a \cup DOMAIN b |-> IF k \in DOMAIN b THEN b[k] ELSE a[k]]

\* traceback.format_exc() inside the except block
FormatExc(msg) == <<"Traceback (most recent call last):", msg>>

\* The outcomes of the collaborators in one call of process_item.
Envs ==
  [ ctor : {"ok", "raise"},
    desc : {[kind |-> "raise"]} \cup {[kind |-> "return", text |-> d] : d \in Descriptions},
    call : {[kind |-> "raise", msg |-> m] : m \in ExcMessages}
           \cup {[kind |-> "return", val |-> v] : v \in WorkerOutputs} ]

FailedRecord(question, golden_answer, msg) ==
  [question |-> question, golden_answer |-> golden_answer,
   error |-> msg, error_trace |-> FormatExc(msg), status |-> "failed"]

SuccessRecord(question, golden_answer, result) ==
  Merge([question |-> question, golden_answer |-> golden_answer,
         status |-> "success"], result)

AugmentedQuestion(item, env) ==
  IF HasFile(item)
  THEN IF IsZip(item.file_name)
       THEN item.question \o ZipHeader \o env.desc.text
       ELSE item.question \o SingleHeader \o env.desc.text
  ELSE item.question

process_item(item, env) ==
  IF env.ctor = "raise" THEN Raise("MMSearchAgent")
  ELSE IF "question" \notin DOMAIN item THEN Raise("KeyError")
  ELSE IF "answer" \notin DOMAIN item THEN Raise("KeyError")
  ELSE IF HasFile(item) /\ env.desc.kind = "raise" THEN Raise("describe")
  ELSE IF env.call.kind = "raise"
       THEN Return(FailedRecord(AugmentedQuestion(item, env), item.answer, env.call.msg))
       ELSE Return(SuccessRecord(AugmentedQuestion(item, env), item.answer, env.call.val))

Outcomes(item) == { process_item(item, e) : e \in Envs }


(* ---------------- files ---------------- *)
\* json.load(f) of the output path: the records, or an exception
CanParse(file) == file.st = "ok"

\* dict.get(key) with the default None
None == <<"None">>
Get(d, key) == IF key \in DOMAIN d THEN d[key] ELSE None

\* truth value of a dict
Truthy(d) == DOMAIN d # {}

(* ---------------- state ---------------- *)
VARIABLES
  data,            \* the loaded work list (args.infile, capped)
  concurrency,     \* args.concurrency
  is_json_output,  \* args.outfile ends with .json
  infile,          \* the records of the file at args.infile
  sample_num,      \* args.sample_num
  api_key,         \* os.environ.get("OPENAI_API_KEY")
  outfile,         \* the file at args.outfile
  tmpfile,         \* the file at args.outfile + '.tmp'
  run,             \* number of the current run of the driver
  pc,              \* position of the main thread
  done_questions,
  data_to_run,
  futures,         \* futures[i]: state and outcome of the task of data_to_run[i]
  unit,            \* unit[w]: the task worker thread w is executing, 0 if idle
  results,
  file_lock,       \* the threads holding file_lock
  result,          \* the result being written by safe_write
  existing_data,
  ac_started,      \* as_completed has taken its snapshot
  ac_ready,        \* futures found finished by the snapshot, not yet yielded
  ac_queue,        \* waiter.finished_futures, in the order they finished
  yielded,         \* futures as_completed has yielded, in order
  finish_order,    \* history: tasks in the order they finished
  written,         \* history: the tasks whose record this run has put in outfile
  ac_snapshot,     \* history: the futures as_completed found finished at its start
  owner,           \* history: the item that produced each record of outfile
  prev_all_success \* history: the previous run ended with every item recorded as success

vars == <<data, concurrency, is_json_output, infile, sample_num, api_key, outfile, tmpfile, run, pc,
          done_questions, data_to_run, futures, unit, results, file_lock,
          result, existing_data, ac_started, ac_ready, ac_queue, yielded,
          finish_order, written, ac_snapshot, owner, prev_all_success>>

config == <<concurrency, is_json_output, infile, sample_num, api_key>>
args == <<data, config>>
memory == <<done_questions, data_to_run, futures, unit, results, file_lock,
            result, existing_data, ac_started, ac_ready, ac_queue, yielded,
            finish_order>>
history == <<written, ac_snapshot>>

Units == 1..concurrency
Tasks == 1..Len(futures)
Queued == { i \in Tasks : futures[i].st = "queued" }
Running == { i \in Tasks : futures[i].st = "running" }
Finished == { i \in Tasks : futures[i].st = "finished" }
Min(S) == CHOOSE m \in S : \A n \in S : m <= n

\* the process has ended: main returned, an exception left main, or it was killed
Ended ==
  pc \in {"done", "no_key", "load_failed", "crashed", "write_crashed", "killed"}

StartMemory ==
  /\ done_questions = {}
  /\ data_to_run = <<>>
  /\ futures = <<>>
  /\ unit = [w \in 1..concurrency |-> 0]
  /\ results = <<>>
  /\ file_lock = {}
  /\ result = <<>>
  /\ existing_data = <<>>
  /\ ac_started = FALSE
  /\ ac_ready = {}
  /\ ac_queue = <<>>
  /\ yielded = <<>>
  /\ finish_order = <<>>
  /\ written = <<>>
  /\ ac_snapshot = {}

\* the memory of a process at the start of main
StartOfMain ==
  /\ data = <<>>
  /\ tmpfile = MissingFile
  /\ run = 1
  /\ pc = "start"
  /\ prev_all_success = FALSE
  /\ StartMemory

\* a first run with no prior output and no sample cap
Init ==
  /\ infile \in SeqsUpTo(Items, MaxItems)
  /\ concurrency \in 1..MaxK
  /\ is_json_output \in BOOLEAN
  /\ sample_num = NoSample
  /\ api_key \in ApiKeys
  /\ outfile = MissingFile
  /\ owner = <<>>
  /\ StartOfMain

\* Output stores an earlier run may have left: a record of an item of
\* PriorItems whose call returned or raised, with the item it came from.
PriorItems == { item \in Items : item.question = <<"Q1">> }
PriorEnvs ==
  { e \in Envs : /\ e.ctor = "ok"
                 /\ e.desc.kind = "return"
                 /\ e.call \in {[kind |-> "raise", msg |-> "boom"],
                                [kind |-> "return", val |-> [agent_result |-> "ok"]]} }
PriorRecords ==
  { [item |-> item, rec |-> process_item(item, e).rec] :
      item \in PriorItems, e \in PriorEnvs }
PriorStores ==
  { [file |-> f, owner |-> <<>>] :
      f \in {MissingFile, EmptyFile, PartialFile, NonRecordsFile} }
  \cup { [file |-> Document([k \in 1..Len(p) |-> p[k].rec]),
          owner |-> [k \in 1..Len(p) |-> p[k].item]] :
            p \in UNION { [1..n -> PriorRecords] : n \in 1..MaxPrior } }

\* a first run over whatever is at the output path
InitPrior ==
  /\ infile \in SeqsUpTo(Items, MaxItems)
  /\ concurrency \in 1..MaxK
  /\ is_json_output \in BOOLEAN
  /\ sample_num = NoSample
  /\ api_key = "sk-key"
  /\ \E p \in PriorStores :
       /\ p.file = NonRecordsFile => is_json_output
       /\ outfile = p.file
       /\ owner = p.owner
  /\ StartOfMain

\* a first run with or without a sample cap, one worker thread
InitSample ==
  /\ infile \in SeqsUpTo(Items, MaxItems)
  /\ concurrency = 1
  /\ is_json_output \in BOOLEAN
  /\ sample_num \in SampleNums
  /\ api_key = "sk-key"
  /\ outfile = MissingFile
  /\ owner = <<>>
  /\ StartOfMain

(* ---------------- main: credentials and input ---------------- *)
\* a guard that only knows the placeholder
PlaceholderOnly(key) == key = PlaceholderKey

\* not api_key or api_key == "your-siliconflow-api-key-here"
BadKey(key) == key = KeyUnset \/ key = "" \/ key = PlaceholderKey

\* the guard at the top of main: main returns when the key is not usable
CheckKey ==
  /\ pc = "start"
  /\ pc' = IF BadKey(api_key) THEN "no_key" ELSE "load_input"
  /\ UNCHANGED <<args, outfile, tmpfile, run, memory, owner, prev_all_success,
                 history>>

Smaller(a, b) == IF a <= b THEN a ELSE b
Larger(a, b) == IF a >= b THEN a ELSE b

\* s[:n] of Python: a negative n counts from the end
PySliceTo(s, n) ==
  SubSeq(s, 1, IF n >= 0 THEN Smaller(n, Len(s)) ELSE Larger(Len(s) + n, 0))

\* if args.sample_num is not None: data = data[:args.sample_num]
Sample(list, num) ==
  IF num = NoSample THEN list ELSE PySliceTo(list, CHOOSE n \in num : TRUE)

\* the load of args.infile and the sample cap
LoadInput ==
  /\ pc = "load_input"
  /\ data' = Sample(infile, sample_num)
  /\ pc' = "load"
  /\ UNCHANGED <<config, outfile, tmpfile, run, memory, owner,
                 prev_all_success, history>>

(* ---------------- main: loading and filtering ---------------- *)
\* the try block around the load of the prior output
LoadOutData(file) == IF CanParse(file) THEN file.recs ELSE <<>>

DoneQuestions(out_data) == { Get(out_data[i], "question") : i \in 1..Len(out_data) }

\* a filter that keeps the done items instead of the others
KeepDone(items, done) ==
  SelectSeq(items, LAMBDA item : Get(item, "question") \in done)

DataToRun(items, done) ==
  SelectSeq(items, LAMBDA item : Get(item, "question") \notin done)

\* the load of the prior output succeeds and gives something that is not a
\* sequence of dicts: item.get raises in the comprehension of done_questions
GetRaises(file) == file.st = "nonrecords"

LoadAndFilter ==
  /\ pc = "load"
  /\ IF GetRaises(outfile)
     THEN /\ pc' = "load_failed"
          /\ UNCHANGED <<done_questions, data_to_run>>
     ELSE /\ done_questions' = DoneQuestions(LoadOutData(outfile))
          /\ data_to_run' = DataToRun(data, done_questions')
          /\ pc' = "submit"
  /\ UNCHANGED <<args, outfile, tmpfile, run, futures, unit, results,
                 file_lock, result, existing_data, ac_started, ac_ready,
                 ac_queue, yielded, finish_order, owner, prev_all_success, history>>

(* ---------------- the executor ---------------- *)
\* executor.submit(process_item, item, ...) for the next item of data_to_run
Submit ==
  /\ pc = "submit"
  /\ Len(futures) < Len(data_to_run)
  /\ futures' = Append(futures, [st |-> "queued", out |-> NoOutcome])
  /\ UNCHANGED <<args, outfile, tmpfile, run, pc, done_questions, data_to_run,
                 unit, results, file_lock, result, existing_data, ac_started,
                 ac_ready, ac_queue, yielded, finish_order, owner,
                 prev_all_success, history>>

\* a pool that hands a work item to a thread that is still running one
AlwaysIdle(w) == TRUE

\* a worker thread of the pool is free to take a work item
UnitIdle(w) == unit[w] = 0

\* an idle worker thread takes the oldest queued work item (the threads of
\* the pool are interchangeable: the idle one of lowest number takes it)
TakeTask(w) ==
  /\ ~Ended
  /\ UnitIdle(w)
  /\ \A u \in Units : UnitIdle(u) => w <= u
  /\ Queued # {}
  /\ LET i == Min(Queued) IN
       /\ futures' = [futures EXCEPT ![i].st = "running"]
       /\ unit' = [unit EXCEPT ![w] = i]
  /\ UNCHANGED <<args, outfile, tmpfile, run, pc, done_questions, data_to_run,
                 results, file_lock, result, existing_data, ac_started,
                 ac_ready, ac_queue, yielded, finish_order, owner,
                 prev_all_success, history>>

\* the worker thread runs process_item to its end and sets the future
FinishTask(w) ==
  /\ ~Ended
  /\ unit[w] # 0
  /\ LET i == unit[w] IN
       \E o \in Outcomes(data_to_run[i]) :
         /\ futures' = [futures EXCEPT ![i] = [st |-> "finished", out |-> o]]
         /\ unit' = [unit EXCEPT ![w] = 0]
         /\ ac_queue' = IF ac_started THEN Append(ac_queue, i) ELSE ac_queue
         /\ finish_order' = Append(finish_order, i)
  /\ UNCHANGED <<args, outfile, tmpfile, run, pc, done_questions, data_to_run,
                 results, file_lock, result, existing_data, ac_started,
                 ac_ready, yielded, owner, prev_all_success, history>>

(* ---------------- main: collecting the futures ---------------- *)
\* first step of the as_completed generator: the futures that are already
\* finished are yielded first, the others as they finish
StartCollect ==
  /\ pc = "submit"
  /\ Len(futures) = Len(data_to_run)
  /\ ac_started' = TRUE
  /\ ac_ready' = Finished
  /\ ac_snapshot' = Finished
  /\ pc' = "collect"
  /\ UNCHANGED <<args, outfile, tmpfile, run, done_questions, data_to_run,
                 futures, unit, results, file_lock, result, existing_data,
                 ac_queue, yielded, finish_order, written, owner,
                 prev_all_success>>

\* the futures in submission order, as in: for future in futures
NextInSubmissionOrder ==
  IF Len(yielded) + 1 \in Finished THEN {Len(yielded) + 1} ELSE {}

\* the futures as_completed may yield next
NextYield ==
  IF ac_ready # {} THEN ac_ready
  ELSE IF ac_queue # <<>> THEN {Head(ac_queue)}
  ELSE {}

\* one iteration of the for loop up to the call of safe_write:
\* future.result() returns the record or raises the task's exception
Collect ==
  /\ pc = "collect"
  /\ \E i \in NextYield :
       /\ ac_ready' = ac_ready \ {i}
       /\ ac_queue' = SelectSeq(ac_queue, LAMBDA j : j # i)
       /\ yielded' = Append(yielded, i)
       /\ IF futures[i].out.kind = "raise"
          THEN /\ pc' = "aborted"
               /\ UNCHANGED <<results, result>>
          ELSE IF Truthy(futures[i].out.rec)
          THEN /\ results' = Append(results, futures[i].out.rec)
               /\ result' = futures[i].out.rec
               /\ pc' = "lock"
          ELSE /\ pc' = "collect"
               /\ UNCHANGED <<results, result>>
  /\ UNCHANGED <<args, outfile, tmpfile, run, done_questions, data_to_run,
                 futures, unit, file_lock, existing_data, ac_started,
                 finish_order, owner, prev_all_success, history>>

\* every future was yielded: the loop and the with block end, main returns
EndOfRun ==
  /\ pc = "collect"
  /\ Len(yielded) = Len(futures)
  /\ pc' = "done"
  /\ UNCHANGED <<args, outfile, tmpfile, run, memory, owner, prev_all_success, history>>

\* an exception (of a task, or of safe_write) left the loop: the with block waits for the submitted tasks
\* (shutdown(wait=True)) and the exception then leaves main
Abort ==
  /\ pc \in {"aborted", "write_aborted"}
  /\ Queued = {}
  /\ Running = {}
  /\ pc' = IF pc = "aborted" THEN "crashed" ELSE "write_crashed"
  /\ UNCHANGED <<args, outfile, tmpfile, run, memory, owner, prev_all_success, history>>

(* ---------------- safe_write ---------------- *)
\* with file_lock:
LockFree(lock) == lock = {}

AcquireLock ==
  /\ pc = "lock"
  /\ LockFree(file_lock)
  /\ file_lock' = file_lock \cup {"main"}
  /\ pc' = IF is_json_output THEN "read" ELSE "append_line"
  /\ UNCHANGED <<args, outfile, tmpfile, run, done_questions, data_to_run,
                 futures, unit, results, result, existing_data, ac_started,
                 ac_ready, ac_queue, yielded, finish_order, owner,
                 prev_all_success, history>>

\* a lock that is acquired and never released
KeptLock(lock) == lock

\* leaving the with block, normally or by an exception
Released(lock) == lock \ {"main"}

\* a write that starts from an empty list whatever the file holds
ReadNothing(file) == <<>>

\* the existing document, [] when it is missing or does not parse
ReadExistingData(file) == IF CanParse(file) THEN file.recs ELSE <<>>

\* json.load gives something without a usable append: the exception leaves
\* safe_write, which releases the lock
ReadExisting ==
  /\ pc = "read"
  /\ IF GetRaises(outfile)
     THEN /\ file_lock' = Released(file_lock)
          /\ pc' = "write_aborted"
          /\ UNCHANGED existing_data
     ELSE /\ existing_data' = Append(ReadExistingData(outfile), result)
          /\ pc' = "open_tmp"
          /\ UNCHANGED file_lock
  /\ UNCHANGED <<args, outfile, tmpfile, run, done_questions, data_to_run,
                 futures, unit, results, result, ac_started,
                 ac_ready, ac_queue, yielded, finish_order, owner,
                 prev_all_success, history>>

\* the files as they would be if the destination itself were opened for writing
OpenDestination(dst, tmp) == <<PartialFile, tmp>>

\* the files <<args.outfile, temp_file>> after open(temp_file, 'w'), which
\* creates or truncates the temp file
OpenForWrite(dst, tmp) == <<dst, PartialFile>>

OpenTemp ==
  /\ pc = "open_tmp"
  /\ outfile' = OpenForWrite(outfile, tmpfile)[1]
  /\ tmpfile' = OpenForWrite(outfile, tmpfile)[2]
  /\ pc' = "dump"
  /\ UNCHANGED <<args, run, memory, owner, prev_all_success, history>>

\* json.dump(existing_data, f) and the close of the temp file
DumpTemp ==
  /\ pc = "dump"
  /\ tmpfile' = Document(existing_data)
  /\ pc' = "move"
  /\ UNCHANGED <<args, outfile, run, memory, owner, prev_all_success, history>>

\* the destination after shutil.move(temp_file, args.outfile): a rename
\* within one directory
Moved(src, dst) == src

MoveTemp ==
  /\ pc = "move"
  /\ outfile' = Moved(tmpfile, outfile)
  /\ tmpfile' = MissingFile
  /\ owner' = Append(IF CanParse(outfile) THEN owner ELSE <<>>,
                      data_to_run[yielded[Len(yielded)]])
  /\ written' = Append(written, yielded[Len(yielded)])
  /\ pc' = "unlock"
  /\ UNCHANGED <<args, run, memory, ac_snapshot, prev_all_success>>

\* the mode of a write that replaces the file
TruncateMode == "w"

\* the mode safe_write passes to write_jsonl
WriteMode == "a"

\* write_jsonl(path, recs, mode): one line per record; mode "a" adds the
\* lines at the end of the file, creating it when it is missing
WriteJsonl(file, recs, mode) ==
  IF mode = "a"
  THEN [st |-> IF file.st \in {"missing", "empty"} THEN "ok" ELSE file.st,
        recs |-> file.recs \o recs]
  ELSE Document(recs)

AppendLine ==
  /\ pc = "append_line"
  /\ outfile' = WriteJsonl(outfile, <<result>>, WriteMode)
  /\ owner' = Append(owner, data_to_run[yielded[Len(yielded)]])
  /\ written' = Append(written, yielded[Len(yielded)])
  /\ pc' = "unlock"
  /\ UNCHANGED <<args, tmpfile, run, memory, ac_snapshot, prev_all_success>>

\* an exception that is swallowed: the loop goes on
Swallowed == "collect"

\* where main is after an exception of safe_write: nothing catches it, it
\* leaves the for loop
AfterWriteError == "write_aborted"

\* open, json.dump, shutil.move or write_jsonl raises (OSError): the files
\* stay as they are, the with block releases the lock
WriteFails ==
  /\ pc \in {"open_tmp", "dump", "move", "append_line"}
  /\ file_lock' = Released(file_lock)
  /\ pc' = AfterWriteError
  /\ UNCHANGED <<args, outfile, tmpfile, run, done_questions, data_to_run,
                 futures, unit, results, result, existing_data, ac_started,
                 ac_ready, ac_queue, yielded, finish_order, owner,
                 prev_all_success, history>>

ReleaseLock ==
  /\ pc = "unlock"
  /\ file_lock' = Released(file_lock)
  /\ pc' = "collect"
  /\ UNCHANGED <<args, outfile, tmpfile, run, done_questions, data_to_run,
                 futures, unit, results, result, existing_data, ac_started,
                 ac_ready, ac_queue, yielded, finish_order, owner,
                 prev_all_success, history>>

(* ---------------- the process ---------------- *)
\* the process is killed or interrupted: its memory is gone, the files stay
Kill ==
  /\ ~Ended
  /\ pc' = "killed"
  /\ done_questions' = {}
  /\ data_to_run' = <<>>
  /\ futures' = <<>>
  /\ unit' = [w \in 1..concurrency |-> 0]
  /\ results' = <<>>
  /\ file_lock' = {}
  /\ result' = <<>>
  /\ existing_data' = <<>>
  /\ ac_started' = FALSE
  /\ ac_ready' = {}
  /\ ac_queue' = <<>>
  /\ yielded' = <<>>
  /\ finish_order' = <<>>
  /\ written' = <<>>
  /\ ac_snapshot' = {}
  /\ UNCHANGED <<args, outfile, tmpfile, run, owner, prev_all_success>>

\* every input item has a record with status success in the output store
AllSuccess ==
  \A i \in 1..Len(data) :
    \E k \in 1..Len(outfile.recs) :
      owner[k] = data[i] /\ outfile.recs[k].status = "success"

\* the driver is started again with the same input and output paths
Rerun ==
  /\ Ended
  /\ run < MaxRuns
  /\ run' = run + 1
  /\ pc' = "start"
  /\ done_questions' = {}
  /\ data_to_run' = <<>>
  /\ futures' = <<>>
  /\ unit' = [w \in 1..concurrency |-> 0]
  /\ results' = <<>>
  /\ file_lock' = {}
  /\ result' = <<>>
  /\ existing_data' = <<>>
  /\ ac_started' = FALSE
  /\ ac_ready' = {}
  /\ ac_queue' = <<>>
  /\ yielded' = <<>>
  /\ finish_order' = <<>>
  /\ written' = <<>>
  /\ ac_snapshot' = {}
  /\ prev_all_success' = (pc = "done" /\ AllSuccess)
  /\ UNCHANGED <<args, outfile, tmpfile, owner>>

Next ==
  \/ CheckKey
  \/ LoadInput
  \/ LoadAndFilter
  \/ Submit
  \/ \E w \in Units : TakeTask(w)
  \/ \E w \in Units : FinishTask(w)
  \/ StartCollect
  \/ Collect
  \/ EndOfRun
  \/ Abort
  \/ AcquireLock
  \/ ReadExisting
  \/ OpenTemp
  \/ DumpTemp
  \/ MoveTemp
  \/ AppendLine
  \/ WriteFails
  \/ ReleaseLock
  \/ Kill

\* one run of the driver, possibly killed
Spec == Init /\ [][Next]_vars

\* runs of the driver one after the other against the same paths
NextResume == Next \/ Rerun
SpecResume == Init /\ [][NextResume]_vars

\* one run over a prior output store
SpecPrior == InitPrior /\ [][Next]_vars

\* one run with a sample cap
SpecSample == InitSample /\ [][Next]_vars

(* ---------------- properties ---------------- *)
Count(seq, x) == Cardinality({ k \in 1..Len(seq) : seq[k] = x })
Pos(seq, x) == CHOOSE k \in 1..Len(seq) : seq[k] = x
QuestionsOf(seq) == { seq[k].question : k \in 1..Len(seq) }
DistinctQuestions(seq) ==
  \A a, b \in 1..Len(seq) : a # b => seq[a].question # seq[b].question
RunOver == pc \in {"done", "crashed"}
InSafeWrite == pc \in {"read", "open_tmp", "dump", "move", "append_line", "unlock"}
\* the processing call of task i raised: process_item returned the failed record
CallRaised(i) ==
  /\ futures[i].out.kind = "return"
  /\ futures[i].out.rec.status = "failed"

\* C1: every exception raised in a worker task (agent construction, reading
\* the item's fields, describing the attachment, the processing call) becomes
\* a failed record; none ends the dispatcher's collection loop.
C1_TaskExceptionsBecomeRecords ==
  /\ \A i \in Finished : futures[i].out.kind = "return"
  /\ pc \notin {"aborted", "crashed"}

\* C2: when the previous run ended with every item recorded as success, the
\* next run against the same paths dispatches no task and appends no record.
C2_ResumeIdempotence ==
  (run > 1 /\ prev_all_success /\ pc # "load") =>
     (data_to_run = <<>> /\ futures = <<>> /\ written = <<>>)

\* C3: for items with pairwise distinct questions, an empty store and K > 1,
\* the finished run leaves exactly N records with pairwise distinct questions,
\* and the questions of the records are the questions of the input.
C3_NoDuplication ==
  (pc = "done" /\ run = 1 /\ concurrency > 1 /\ DistinctQuestions(data)) =>
     /\ Len(outfile.recs) = Len(data)
     /\ DistinctQuestions(outfile.recs)
     /\ QuestionsOf(outfile.recs) = QuestionsOf(data)

\* C4: with array encoding the destination file is never half written: at
\* every point of an append, and after a kill at any point, it is the
\* complete document from before the append or the complete one after it.
C4_ArrayWriteAtomic ==
  is_json_output =>
     /\ outfile.st \in {"missing", "ok"}
     /\ pc \in {"open_tmp", "dump", "move"} =>
          existing_data = Append(ReadExistingData(outfile), result)
     /\ pc = "unlock" => outfile = Document(existing_data)

\* C4 witness: the process was killed between the write of the temp file
\* and the rename, during the second append.
C4_Witness ==
  /\ pc = "killed"
  /\ is_json_output
  /\ outfile.st = "ok"
  /\ tmpfile.st = "ok"
  /\ Len(tmpfile.recs) = Len(outfile.recs) + 1

\* C5: when the processing call of an item raises, the task returns a failed
\* record with an error field and a non-empty error_trace, the record is
\* appended, and every sibling task completes and has its record appended.
C5_FailureIsolation ==
  \A i \in Tasks :
    (futures[i].st = "finished" /\ CallRaised(i)) =>
       /\ "error" \in DOMAIN futures[i].out.rec
       /\ futures[i].out.rec.error_trace # <<>>
       /\ RunOver => \A j \in Tasks : Count(written, j) = 1

\* C6: at most K worker tasks execute at a time, each on its own execution
\* unit, and a unit leaves a task only when the task has finished.
C6_BoundedParallelism ==
  /\ [](/\ Cardinality(Running) <= concurrency
        /\ Running = { unit[w] : w \in Units } \ {0})
  /\ [][\A w \in Units :
          (pc' # "killed" /\ unit[w] # 0 /\ unit'[w] # unit[w]) =>
             (unit'[w] = 0 /\ futures'[unit[w]].st = "finished")]_vars

\* C6 witness: every unit is busy and a submitted task waits for one.
C6_Witness ==
  /\ Cardinality(Running) = concurrency
  /\ Queued # {}

\* C7: at most one thread holds file_lock, and it is held exactly while the
\* main thread is inside safe_write, so at most one append is in progress.
C7_SerializedWrites ==
  /\ Cardinality(file_lock) <= 1
  /\ file_lock # {} <=> InSafeWrite

\* C7 witness: the second append of the run is in progress.
C7_Witness ==
  /\ file_lock = {"main"}
  /\ Len(written) = 1
  /\ pc \in {"move", "append_line"}

\* C8: every record in the store has question, golden_answer and status,
\* status is success or failed, and golden_answer is the item's answer.
C8_RecordShape ==
  \A k \in 1..Len(outfile.recs) :
    /\ {"question", "golden_answer", "status"} \subseteq DOMAIN outfile.recs[k]
    /\ outfile.recs[k].status \in {"success", "failed"}
    /\ outfile.recs[k].golden_answer = owner[k].answer

\* C9: no dispatched item has more than one record appended by the run, and
\* when the run is over every dispatched item has exactly one.
C9_ExactlyOnce ==
  /\ \A i \in Tasks : Count(written, i) <= 1
  /\ RunOver => \A i \in Tasks : Count(written, i) = 1

\* C10 as stated: finished tasks are appended in the order they finished.
C10_CompletionOrder ==
  \A a, b \in 1..Len(written) :
    a < b => Pos(finish_order, written[a]) < Pos(finish_order, written[b])

\* C10 amended: the dispatcher waits only when no finished task is left to
\* collect, whatever the other tasks do, and by then the record of every
\* finished task that returned one is in the store; the tasks found finished
\* when collection starts are appended first, in no particular order, and the
\* others in the order they finished.
C10_IncrementalHandOff ==
  /\ (pc = "collect" /\ NextYield = {}) =>
       \A i \in Finished :
         /\ Count(yielded, i) = 1
         /\ futures[i].out.kind = "return" => Count(written, i) = 1
  /\ \A a, b \in 1..Len(written) :
       a < b =>
         /\ written[b] \in ac_snapshot => written[a] \in ac_snapshot
         /\ written[a] \notin ac_snapshot =>
              Pos(finish_order, written[a]) < Pos(finish_order, written[b])

\* C10 witness: the store holds the record of the second task while the
\* first, submitted before it, is still running.
C10_Witness ==
  /\ written = <<2>>
  /\ Len(outfile.recs) = 1
  /\ 1 \in Running

\* main is past the load of the prior output and still has its memory
PastLoad ==
  pc \in {"submit", "collect", "lock", "read", "open_tmp", "dump", "move",
          "append_line", "unlock", "aborted", "write_aborted", "done",
          "crashed", "write_crashed"}
FirstN(list, n) == [k \in 1..Smaller(Larger(n, 0), Len(list)) |-> list[k]]
IsReturn(i) == futures[i].st = "finished" /\ futures[i].out.kind = "return"

\* C11: whatever the output path holds that is not a sequence of records
\* (nothing, an empty file, malformed content, other parsable content), the
\* load does not end the run, the CompletionSet is empty and every input
\* item is pending.
C11_ColdStart ==
  (written = <<>> /\ outfile.st \in {"missing", "empty", "partial", "nonrecords"}) =>
     /\ pc # "load_failed"
     /\ PastLoad => (done_questions = {} /\ data_to_run = data)

\* C12: with line encoding every step keeps the records of the store as a
\* prefix of the new store; the store only changes by one record added at
\* its end by an append.
C12_LineAppendOnly ==
  [][~is_json_output =>
       /\ Len(outfile'.recs) >= Len(outfile.recs)
       /\ SubSeq(outfile'.recs, 1, Len(outfile.recs)) = outfile.recs
       /\ outfile' # outfile =>
            (pc = "append_line" /\ outfile'.recs = Append(outfile.recs, result))]_vars

\* C12 witness: a line has been added after the record the store already held
\* and after the first record of this run.
C12_Witness ==
  /\ ~is_json_output
  /\ Len(written) = 2
  /\ Len(outfile.recs) = 3

\* C13: a collected result that is not in the store is never passed over:
\* main goes on collecting, or returns, only with every collected result
\* stored, and a run that returns normally has stored the record of every
\* task.
C13_WriteFailureSurfaces ==
  /\ pc \in {"collect", "done", "aborted", "crashed"} => Len(results) = Len(written)
  /\ pc = "done" => \A i \in Tasks : IsReturn(i) /\ Count(written, i) = 1

\* C13 witness: a write failed and the exception has ended the run, with a
\* collected result that is not in the store.
C13_Witness ==
  /\ pc = "write_crashed"
  /\ Len(results) = 2
  /\ Len(written) = 1

\* C14: an item for which an earlier run stored a failed record is not
\* pending in a later run against the same paths.
C14_FailedNeverRetried ==
  (run > 1 /\ pc = "submit") =>
     \A k \in 1..Len(outfile.recs) :
       outfile.recs[k].status = "failed" =>
          \A j \in 1..Len(data_to_run) : data_to_run[j] # owner[k]

\* C15: the CompletionSet is the set of questions of the store at the start
\* of the run; the pending list is the input items whose question is not in
\* it, all of them, in source order; only pending items are dispatched.
C15_FilteringRule ==
  PastLoad =>
     /\ written = <<>> =>
          done_questions =
            IF outfile.st = "ok" THEN QuestionsOf(outfile.recs) ELSE {}
     /\ \E f \in [1..Len(data_to_run) -> 1..Len(data)] :
          /\ \A a, b \in 1..Len(data_to_run) : a < b => f[a] < f[b]
          /\ \A j \in 1..Len(data_to_run) : data_to_run[j] = data[f[j]]
          /\ { f[j] : j \in 1..Len(data_to_run) } =
               { i \in 1..Len(data) : data[i].question \notin done_questions }
     /\ Len(futures) <= Len(data_to_run)

\* C15 witness: of two input items one is done and the other is dispatched.
C15_Witness ==
  /\ pc = "collect"
  /\ Len(data) = 2
  /\ Len(data_to_run) = 1
  /\ Len(futures) = 1

\* C16: with array encoding the store only changes to the document made of
\* the records it held, in their order, followed by the appended record; a
\* store that is missing or does not parse counts as holding none.
C16_ArrayAppendResult ==
  [][(is_json_output /\ outfile' # outfile) =>
       outfile' = Document((IF outfile.st = "ok" THEN outfile.recs ELSE <<>>)
                             \o <<result>>)]_vars

\* C16 witness: a record has been appended to a document that held one.
C16_Witness ==
  /\ is_json_output
  /\ pc = "unlock"
  /\ Len(written) = 1
  /\ Len(outfile.recs) = 2

\* C17: the final store and the final counts depend on the outcomes of the
\* tasks only, not on the order they complete in: when the run is over the
\* store holds the record of every task that returned one, and the newly
\* completed count is the number of records appended.
C17_OrderIndependence ==
  pc \in {"done", "crashed"} =>
     /\ \A i \in Tasks : IsReturn(i) => Count(written, i) = 1
     /\ Len(results) = Len(written)

\* C18: two pending items with the same question are both dispatched, both
\* have their record appended, and the store then holds two records with
\* that question.
C18_DuplicateQuestions ==
  pc = "done" =>
     \A i, j \in 1..Len(data_to_run) :
       (i < j /\ data_to_run[i].question = data_to_run[j].question) =>
          /\ Count(written, i) = 1
          /\ Count(written, j) = 1
          /\ Cardinality({ k \in 1..Len(outfile.recs) :
                outfile.recs[k].question = data_to_run[i].question }) >= 2

\* C19: the work list is the first N items of the source (all of it when N
\* is larger than its length) for every integer N, and the whole source
\* when no sample size is given.
C19_SampleCap ==
  PastLoad =>
     data = IF sample_num = NoSample THEN infile
            ELSE FirstN(infile, CHOOSE n \in sample_num : TRUE)

\* C20: with the API key unset, empty or equal to the placeholder the run
\* ends before the input is loaded: nothing is dispatched, no temp file is
\* made and the output store stays as it was.
C20_CredentialGuard ==
  api_key \in {KeyUnset, "", PlaceholderKey} =>
     /\ pc \in {"start", "no_key", "killed"}
     /\ data = <<>>
     /\ futures = <<>>
     /\ tmpfile = MissingFile
     /\ outfile = MissingFile

\* C20 witness: main has returned because the key is not set.
C20_Witness ==
  /\ api_key = KeyUnset
  /\ pc = "no_key"

====
